---- MODULE Spec2Model ----
(***************************************************************************)
(* A model of biobb_wf_md_setup_api/notebooks/utils.py: the helper layer   *)
(* that launches a job on a REST API (launch_job), polls its status        *)
(* (check_status, check_job) and downloads its output files                *)
(* (retrieve_data, get_file).                                              *)
(*                                                                         *)
(* Strings are sequences of atoms (single characters for argument names,   *)
(* chunks for URLs and paths), so that  +  is \o and str.startswith is a   *)
(* prefix test.  The HTTP server, the file system and the Python runtime   *)
(* are the environment: every answer they may give is a nondeterministic   *)
(* choice from a small set.                                                *)
(***************************************************************************)
EXTENDS Integers, Sequences, FiniteSets, TLC

VARIABLES
  pc,          \* position of the running call
  caller,      \* "direct" or "check_job": who called check_status
  \* ---- check_status
  url,         \* the url argument (of check_status, or of launch_job)
  ok,          \* the ok argument
  error,       \* the error argument
  counter,     \* local counter
  slp,         \* local slp (0 before its first assignment)
  clock,       \* seconds spent in sleep() so far (environment)
  nSleeps,     \* number of sleep() calls so far (environment)
  nGets,       \* number of requests.get calls of check_status (environment)
  nTerminal,   \* how many of those answered with ok or error (environment)
  lastStatus,  \* r.status_code of the last GET of check_status
  retval,      \* value returned by check_status (Unset before)
  urlsSeen,    \* the URLs requested by check_status and check_job
  \* ---- check_job
  token,       \* the token argument
  apiURL,      \* the apiURL argument (also of retrieve_data)
  response,    \* the Response built by get_data in check_job
  jobResult,   \* value returned by check_job
  \* ---- launch_job
  kwargs,      \* the keyword arguments, in call order: <<key, value>> pairs
  idx,         \* number of kwargs items already processed
  data,        \* local data
  files,       \* local files
  posted,      \* what post_data sent: [url, data, files], or None
  lresponse,   \* the Response built by post_data
  launchRet,   \* value returned by launch_job
  \* ---- retrieve_data / get_file
  out_files,   \* the out_files argument
  rIdx,        \* number of descriptors whose get_file call has been entered
  requests,    \* the URLs requested by get_file, in order
  received,    \* r.content of each answered GET of get_file, by position
  writes,      \* the positions whose file.write call has returned, in order
  fs,          \* the local file system: file name -> content, or Absent
  failed,      \* [at, stage] of the exception that ended retrieve_data, or None
  retrRet,     \* value returned by retrieve_data
  \* ---- file handles (launch_job and get_file)
  handles      \* every file object opened so far:
               \* [path, mode, key, buffer, closed]

pollVars   == <<url, ok, error, counter, slp, clock, nSleeps, nGets, nTerminal,
                lastStatus, retval, urlsSeen>>
jobVars    == <<token, apiURL, response, jobResult>>
launchVars == <<kwargs, idx, data, files, posted, lresponse, launchRet>>
retrVars   == <<out_files, rIdx, requests, received, writes, fs, failed, retrRet>>
vars       == <<pc, caller, pollVars, jobVars, launchVars, retrVars, handles>>

\* ------------------------------------------------------------------ bounds

\* Most iterations of the polling loop a run of the model follows.
MaxPolls == 17
\* Most keyword arguments of a launch_job call of the model.
MaxArgs == 2
\* Most output descriptors of a retrieve_data call of the model.
MaxFiles == 3

\* ------------------------------------------------------- program constants

\* utils.py:66  if response.status == 303
SEE_OTHER == 303
\* utils.py:74  check_status(url, 200, 500); utils.py:78  response.status == 200
JOB_OK == 200
\* utils.py:74  check_status(url, 200, 500)
JOB_ERROR == 500

\* ------------------------------------------------------------ environment

\* Python values carry their type; each type keeps its payload in a field of
\* its own.
PyNone == [type |-> "NoneType"]
PyStr(chunks) == [type |-> "str", s |-> chunks]
PyInt(k) == [type |-> "int", n |-> k]
PyDict(pairs) == [type |-> "dict", d |-> pairs]
PyList(elems) == [type |-> "list", items |-> elems]
\* A variable no statement has assigned yet.
Unset == [type |-> "unset"]

\* A file that does not exist, and the content of a file just truncated.
Absent == "Absent"
Empty == ""

\* Status codes the server of the model answers with.
StatusCodes == {200, 202, 302, 303, 404, 500}

\* ---------------------------------------------------------------- strings

\* str.startswith(prefix)
StartsWith(s, prefix) ==
  /\ Len(s) >= Len(prefix)
  /\ SubSeq(s, 1, Len(prefix)) = prefix

\* ------------------------------------------------------------ check_status

\* utils.py:30, as written with  == ok  only
IsTerminalOkOnly(status, okCode, errorCode) == status = okCode

\* utils.py:30  r.status_code == ok or r.status_code == error
IsTerminal(status, okCode, errorCode) ==
  status = okCode \/ status = errorCode

\* utils.py:24-26 with the first tier closed at 10 ( counter <= 10 )
NextSlpOffByOne(c, prev) ==
  LET s1 == IF c <= 10 THEN 1 ELSE prev
      s2 == IF c > 10 /\ c < 60 THEN 10 ELSE s1
      s3 == IF c >= 60 THEN 60 ELSE s2
  IN  s3

\* utils.py:24-26: three independent ifs, each of which may assign slp
NextSlp(c, prev) ==
  LET s1 == IF c < 10 THEN 1 ELSE prev
      s2 == IF c >= 10 /\ c < 60 THEN 10 ELSE s1
      s3 == IF c >= 60 THEN 60 ELSE s2
  IN  s3

\* utils.py:23-27: the head of one loop iteration
PollTier ==
  /\ pc = "cs_tier"
  /\ nSleeps < MaxPolls
  /\ slp' = NextSlp(counter, slp)
  /\ counter' = counter + slp'
  /\ pc' = "cs_sleep"
  /\ UNCHANGED <<caller, url, ok, error, clock, nSleeps, nGets, nTerminal,
                 lastStatus, retval, urlsSeen>>
  /\ UNCHANGED <<jobVars, launchVars, retrVars, handles>>

\* utils.py:28  sleep(slp)
PollSleep ==
  /\ pc = "cs_sleep"
  /\ clock' = clock + slp
  /\ nSleeps' = nSleeps + 1
  /\ pc' = "cs_get"
  /\ UNCHANGED <<caller, url, ok, error, counter, slp, nGets, nTerminal,
                 lastStatus, retval, urlsSeen>>
  /\ UNCHANGED <<jobVars, launchVars, retrVars, handles>>

\* utils.py:29-32: the GET is answered with any status; return or loop
PollGet ==
  /\ pc = "cs_get"
  /\ \E status \in StatusCodes :
       /\ lastStatus' = status
       /\ nGets' = nGets + 1
       /\ urlsSeen' = urlsSeen \cup {url}
       /\ nTerminal' = nTerminal + (IF status \in {ok, error} THEN 1 ELSE 0)
       /\ IF IsTerminal(status, ok, error)
            THEN /\ retval' = PyInt(counter)
                 /\ pc' = "cs_returned"
            ELSE /\ retval' = retval
                 /\ pc' = "cs_tier"
  /\ UNCHANGED <<caller, url, ok, error, counter, slp, clock, nSleeps>>
  /\ UNCHANGED <<jobVars, launchVars, retrVars, handles>>

\* utils.py:29: requests.get raises (no connection); the exception propagates
PollGetRaises ==
  /\ pc = "cs_get"
  /\ nGets' = nGets + 1
  /\ urlsSeen' = urlsSeen \cup {url}
  /\ pc' = "raised"
  /\ UNCHANGED <<caller, url, ok, error, counter, slp, clock, nSleeps,
                 nTerminal, lastStatus, retval>>
  /\ UNCHANGED <<jobVars, launchVars, retrVars, handles>>

\* The state before a call of check_status(u, okCode, errorCode); utils.py:22
PollEntry(u, okCode, errorCode) ==
  /\ url = u
  /\ ok = okCode
  /\ error = errorCode
  /\ counter = 0
  /\ slp = 0
  /\ clock = 0
  /\ nSleeps = 0
  /\ nGets = 0
  /\ nTerminal = 0
  /\ lastStatus = 0
  /\ retval = Unset
  /\ urlsSeen = {}

\* --------------------------------------------------------------- check_job

\* URLs, tokens and file ids of the model, as chunk sequences.
ApiURLs == {<<"https://mmb.irbbarcelona.org/biobb-api/rest/v1/">>}
Tokens == {<<"tok1">>, <<"tok2">>}
Ids == {<<"id1">>, <<"id2">>}
Names == {<<"a.gro">>, <<"out.gro">>}

\* Entries of a status body's output_files: id and name, and a field more.
Entries == [id : Ids, name : Names, size : {7}]

RECURSIVE SeqsUpTo(_, _)
\* The sequences over S of length at most n.
SeqsUpTo(S, n) ==
  IF n = 0 THEN {<<>>}
  ELSE LET shorter == SeqsUpTo(S, n - 1)
       IN  shorter \cup {Append(q, x) : q \in shorter, x \in S}

\* What r.text of a status answer may be: no JSON at all, a JSON object
\* without output_files, or one with it.
StatusTexts ==
  {[json |-> FALSE]}
    \cup {[json |-> TRUE, value |-> [message |-> "m"]]}
    \cup {[json |-> TRUE, value |-> [output_files |-> q]] :
             q \in SeqsUpTo(Entries, MaxFiles)}

\* utils.py:78 and 89, deciding on the status the polling loop stopped on
JobSucceededByPoll(resp) == lastStatus = JOB_OK

\* utils.py:78 and 89  response.status == 200
JobSucceeded(resp) == resp.status = JOB_OK

\* utils.py:79-82, appending outf itself
OutFilesWhole(body) == body.output_files

\* utils.py:79-82: the id and name of every entry of output_files, in order
OutFiles(body) ==
  [i \in 1..Len(body.output_files) |->
     [id |-> body.output_files[i].id, name |-> body.output_files[i].name]]

\* utils.py:72  url = apiURL + 'retrieve/status/' + token
StatusUrl(api, tok) == api \o <<"retrieve/status/">> \o tok

\* utils.py:72-74: build the url and enter check_status(url, 200, 500)
JobStart ==
  /\ pc = "cj_start"
  /\ url' = StatusUrl(apiURL, token)
  /\ ok' = JOB_OK
  /\ error' = JOB_ERROR
  /\ counter' = 0
  /\ pc' = "cs_tier"
  /\ UNCHANGED <<caller, slp, clock, nSleeps, nGets, nTerminal, lastStatus,
                 retval, urlsSeen>>
  /\ UNCHANGED <<jobVars, launchVars, retrVars, handles>>

\* utils.py:76-91: get_data(url) is answered with any status and text; the
\* descriptors are built on 200 and returned, None is returned otherwise
JobFinish ==
  /\ pc = "cs_returned"
  /\ caller = "check_job"
  /\ \E status \in StatusCodes, text \in StatusTexts :
       /\ text.json
       /\ LET resp == [status |-> status, json |-> text.value]
          IN  /\ JobSucceeded(resp) => "output_files" \in DOMAIN resp.json
              /\ response' = resp
              /\ jobResult' = IF JobSucceeded(resp)
                                THEN PyList(OutFiles(resp.json))
                                ELSE PyNone
  /\ urlsSeen' = urlsSeen \cup {url}
  /\ pc' = "done"
  /\ UNCHANGED <<caller, url, ok, error, counter, slp, clock, nSleeps, nGets,
                 nTerminal, lastStatus, retval>>
  /\ UNCHANGED <<token, apiURL, launchVars, retrVars, handles>>

\* utils.py:76: get_data(url) raises, in requests.get (utils.py:14, no
\* connection) or in json.loads (utils.py:15, a body that is no JSON);
\* response is not assigned
JobGetDataRaises ==
  /\ pc = "cs_returned"
  /\ caller = "check_job"
  /\ urlsSeen' = urlsSeen \cup {url}
  /\ pc' = "raised"
  /\ UNCHANGED <<caller, url, ok, error, counter, slp, clock, nSleeps, nGets,
                 nTerminal, lastStatus, retval>>
  /\ UNCHANGED <<jobVars, launchVars, retrVars, handles>>

\* utils.py:76-80: get_data(url) is answered with 200 and a JSON body that
\* has no output_files; response is assigned, then utils.py:80 raises
\* KeyError
JobKeyError ==
  /\ pc = "cs_returned"
  /\ caller = "check_job"
  /\ \E status \in StatusCodes, text \in StatusTexts :
       /\ text.json
       /\ LET resp == [status |-> status, json |-> text.value]
          IN  /\ JobSucceeded(resp)
              /\ "output_files" \notin DOMAIN resp.json
              /\ response' = resp
  /\ urlsSeen' = urlsSeen \cup {url}
  /\ pc' = "raised"
  /\ UNCHANGED <<caller, url, ok, error, counter, slp, clock, nSleeps, nGets,
                 nTerminal, lastStatus, retval>>
  /\ UNCHANGED <<token, apiURL, jobResult, launchVars, retrVars, handles>>

\* -------------------------------------------------------------- launch_job

\* Argument names of the model, character by character.
K_input_gro == <<"i", "n", "p", "u", "t", "_", "g", "r", "o">>
K_output_gro == <<"o", "u", "t", "p", "u", "t", "_", "g", "r", "o">>
K_config == <<"c", "o", "n", "f", "i", "g">>
K_inp == <<"i", "n", "p">>
K_properties == <<"p", "r", "o", "p", "e", "r", "t", "i", "e", "s">>
Keys == {K_input_gro, K_output_gro, K_config, K_inp, K_properties}

\* utils.py:52  'input'   utils.py:54  'output'
P_input == <<"i", "n", "p", "u", "t">>
P_output == <<"o", "u", "t", "p", "u", "t">>

\* Configuration objects of the model: {"a": 1} and {"a": 1, "b": 2}, as
\* the pairs of the dict in insertion order.
Dict1 == << <<"a", 1>> >>
Dict2 == << <<"a", 1>>, <<"b", 2>> >>

\* Argument values of the model: a path of an existing file, a path of no
\* file, two configuration objects, and a value that is neither str nor dict.
Values ==
  {PyStr(<<"a.gro">>), PyStr(<<"out.gro">>), PyDict(Dict1), PyDict(Dict2),
   PyInt(7)}

\* The keyword arguments of a call: at most MaxArgs items, no name twice.
KwargsSets ==
  {q \in SeqsUpTo(Keys \X Values, MaxArgs) :
     \A i, j \in 1..Len(q) : i # j => q[i][1] # q[j][1]}

LaunchURLs == {<<"https://mmb.irbbarcelona.org/biobb-api/rest/v1/launch/md">>}

\* What r.text of the answer to the POST may be.
LaunchTexts ==
  {[json |-> FALSE]}
    \cup {[json |-> TRUE, value |-> [message |-> "m"]]}
    \cup {[json |-> TRUE, value |-> [token |-> t]] : t \in Tokens}

\* The decimal digits of the small numbers of the model's dicts.
IntStr(k) == <<"0", "1", "2", "3", "4", "5", "6", "7", "8", "9">>[k + 1]

RECURSIVE DumpsItems(_)
\* json.dumps of the items of a dict: "key": value, joined by ", "
DumpsItems(pairs) ==
  IF pairs = <<>> THEN <<>>
  ELSE <<"\"", pairs[1][1], "\"", ": ", IntStr(pairs[1][2])>>
         \o (IF Len(pairs) > 1 THEN <<", ">> ELSE <<>>)
         \o DumpsItems(Tail(pairs))

\* utils.py:41  json.dumps(data)
Dumps(pairs) == <<"{">> \o DumpsItems(pairs) \o <<"}">>

\* utils.py:40-43  encode_config: the JSON text, encoded, in a BytesIO
encode_config(pairs) == [type |-> "BytesIO", bytes |-> Dumps(pairs)]

\* utils.py:56  Path(value).is_file()
IsFile(path) == path \in DOMAIN fs /\ fs[path] # Absent

\* open(value, 'rb') on behalf of argument key: the new file object
OpenRb(path, key) ==
  [path |-> path, mode |-> "rb", key |-> key, buffer |-> Empty,
   closed |-> FALSE]

\* f with f[k] set to v, k added to its domain when new:  f[k] = v  of a dict
Put(f, k, v) == [x \in DOMAIN f \cup {k} |-> IF x = k THEN v ELSE f[x]]

\* The item of kwargs the loop of utils.py:49 handles next.
CurKey == kwargs[idx + 1][1]
CurVal == kwargs[idx + 1][2]

\* utils.py:51-57 with the is_file test ahead of the 'output' test
BranchFileFirst(key, value) ==
  IF value.type = "str"
    THEN IF StartsWith(key, P_input) THEN "input"
         ELSE IF IsFile(value.s) THEN "file"
         ELSE IF StartsWith(key, P_output) THEN "output"
         ELSE "skip"
  ELSE IF value.type = "dict" THEN "dict"
  ELSE "skip"

\* utils.py:51-60: the branch the loop body takes for one item
Branch(key, value) ==
  IF value.type = "str"
    THEN IF StartsWith(key, P_input) THEN "input"
         ELSE IF StartsWith(key, P_output) THEN "output"
         ELSE IF IsFile(value.s) THEN "file"
         ELSE "skip"
  ELSE IF value.type = "dict" THEN "dict"
  ELSE "skip"

\* utils.py:53 and 57  files[key] = (value, open(value, 'rb'))
LaunchUpload ==
  /\ pc = "lj_loop"
  /\ idx < Len(kwargs)
  /\ Branch(CurKey, CurVal) \in {"input", "file"}
  /\ IsFile(CurVal.s)
  /\ handles' = Append(handles, OpenRb(CurVal.s, CurKey))
  /\ files' = Put(files, CurKey,
                  [filename |-> CurVal.s,
                   fileobj |-> [type |-> "file", handle |-> Len(handles) + 1]])
  /\ idx' = idx + 1
  /\ UNCHANGED <<pc, caller, kwargs, data, posted, lresponse, launchRet>>
  /\ UNCHANGED <<pollVars, jobVars, retrVars>>

\* utils.py:53 and 57: open raises, FileNotFoundError for an 'input'
\* argument that names no file, or OSError for a file that cannot be read;
\* the exception ends launch_job before any POST
LaunchUploadRaises ==
  /\ pc = "lj_loop"
  /\ idx < Len(kwargs)
  /\ Branch(CurKey, CurVal) \in {"input", "file"}
  /\ pc' = "raised"
  /\ UNCHANGED <<caller, launchVars, handles>>
  /\ UNCHANGED <<pollVars, jobVars, retrVars>>

\* utils.py:55  data[key] = value
LaunchOutput ==
  /\ pc = "lj_loop"
  /\ idx < Len(kwargs)
  /\ Branch(CurKey, CurVal) = "output"
  /\ data' = Put(data, CurKey, CurVal.s)
  /\ idx' = idx + 1
  /\ UNCHANGED <<pc, caller, kwargs, files, posted, lresponse, launchRet,
                 handles>>
  /\ UNCHANGED <<pollVars, jobVars, retrVars>>

\* The file objects that f[key] = ... leaves without a reference: the one
\* f[key] held, if it held an opened file.
Dropped(f, key) ==
  IF key \in DOMAIN f /\ f[key].fileobj.type = "file"
    THEN {f[key].fileobj.handle}
    ELSE {}

\* The file objects hs once the runtime has, or has not, finalized those of
\* S: the code closes none of them itself; reference counting closes a file
\* object the moment its last reference goes, a tracing collector need not.
Finalize(hs, S, finalized) ==
  [i \in 1..Len(hs) |->
     IF i \in S /\ finalized THEN [hs[i] EXCEPT !.closed = TRUE] ELSE hs[i]]

\* utils.py:60  files['config'] = ('prop.json', encode_config(value)); a
\* file opened at utils.py:57 for a string argument named 'config' loses its
\* only reference here
LaunchConfig ==
  /\ pc = "lj_loop"
  /\ idx < Len(kwargs)
  /\ Branch(CurKey, CurVal) = "dict"
  /\ files' = Put(files, K_config,
                  [filename |-> <<"prop.json">>,
                   fileobj |-> encode_config(CurVal.d)])
  /\ \E finalized \in BOOLEAN :
       handles' = Finalize(handles, Dropped(files, K_config), finalized)
  /\ idx' = idx + 1
  /\ UNCHANGED <<pc, caller, kwargs, data, posted, lresponse, launchRet>>
  /\ UNCHANGED <<pollVars, jobVars, retrVars>>

\* utils.py:51-59: an item no branch takes leaves data and files alone
LaunchSkip ==
  /\ pc = "lj_loop"
  /\ idx < Len(kwargs)
  /\ Branch(CurKey, CurVal) = "skip"
  /\ idx' = idx + 1
  /\ UNCHANGED <<pc, caller, kwargs, data, files, posted, lresponse,
                 launchRet, handles>>
  /\ UNCHANGED <<pollVars, jobVars, retrVars>>

\* utils.py:66, taking every status below 400 for an accepted job
AcceptedBelow400(resp) == resp.status < 400

\* utils.py:66  response.status == 303
Accepted(resp) == resp.status = SEE_OTHER

\* utils.py:62  post_data(url, data, files), answered with any status and
\* any JSON text
LaunchPost ==
  /\ pc = "lj_loop"
  /\ idx = Len(kwargs)
  /\ posted' = [url |-> url, data |-> data, files |-> files]
  /\ \E status \in StatusCodes, text \in LaunchTexts :
       /\ text.json
       /\ lresponse' = [status |-> status, json |-> text.value]
  /\ pc' = "lj_print"
  /\ UNCHANGED <<caller, kwargs, idx, data, files, launchRet, handles>>
  /\ UNCHANGED <<pollVars, jobVars, retrVars>>

\* utils.py:19: json.loads fails on an answer that is no JSON
LaunchPostRaises ==
  /\ pc = "lj_loop"
  /\ idx = Len(kwargs)
  /\ posted' = [url |-> url, data |-> data, files |-> files]
  /\ \E text \in LaunchTexts : ~text.json
  /\ pc' = "raised"
  /\ UNCHANGED <<caller, kwargs, idx, data, files, lresponse, launchRet,
                 handles>>
  /\ UNCHANGED <<pollVars, jobVars, retrVars>>

\* The file objects of launch_job once the call has returned: the code closes
\* none of them; whether the runtime has finalized the ones it no longer
\* refers to (reference counting does, a tracing collector need not) is the
\* runtime's choice.
AfterReturn(hs, finalized) == Finalize(hs, 1..Len(hs), finalized)

\* utils.py:64-68: print the answer; return the token on 303, None otherwise
LaunchReturn ==
  /\ pc = "lj_print"
  /\ Accepted(lresponse) => "token" \in DOMAIN lresponse.json
  /\ launchRet' = IF Accepted(lresponse)
                    THEN PyStr(lresponse.json.token)
                    ELSE PyNone
  /\ \E finalized \in BOOLEAN : handles' = AfterReturn(handles, finalized)
  /\ pc' = "done"
  /\ UNCHANGED <<caller, kwargs, idx, data, files, posted, lresponse>>
  /\ UNCHANGED <<pollVars, jobVars, retrVars>>

\* utils.py:67: KeyError on a 303 whose body has no token
LaunchReturnRaises ==
  /\ pc = "lj_print"
  /\ Accepted(lresponse)
  /\ "token" \notin DOMAIN lresponse.json
  /\ \E finalized \in BOOLEAN : handles' = AfterReturn(handles, finalized)
  /\ pc' = "raised"
  /\ UNCHANGED <<caller, launchVars>>
  /\ UNCHANGED <<pollVars, jobVars, retrVars>>

\* ------------------------------------------------- retrieve_data, get_file

\* What r.content of a download may be: the one-byte bodies x and y, which
\* fit the buffer of the file object open() returns, and a body XL that does
\* not.
SmallBodies == {"x", "y"}
LargeBodies == {"XL"}
Contents == SmallBodies \cup LargeBodies

\* A body larger than the buffer that the disk takes only in part: the part
\* that reached the file, and the rest, which the file object buffers.
Part(body) == IF body = "XL" THEN "XL:head" ELSE Empty
Rest(body) == IF body = "XL" THEN "XL:tail" ELSE body

\* The content of a file that held disk once buf is written after it.
Joined(disk, buf) ==
  IF disk = Empty THEN buf
  ELSE CHOOSE b \in LargeBodies : disk = Part(b) /\ buf = Rest(b)

\* utils.py:37: file.write keeps a body that fits its buffer in the buffer,
\* and hands a larger one to the file at once
Buffered(content) == content \in SmallBodies

\* Output descriptors, as check_job builds them.
Descriptors == [id : Ids, name : Names]

\* The descriptor get_file is running for.
CurDesc == out_files.items[rIdx]

\* utils.py:97, asking for the descriptor's name
DataUrlByName(api, desc) == api \o <<"retrieve/data/">> \o desc.name

\* utils.py:97  apiURL + 'retrieve/data/' + outf['id']
DataUrl(api, desc) == api \o <<"retrieve/data/">> \o desc.id

\* utils.py:96-97, with the loop body in a try whose except goes on with the
\* next descriptor
SwallowAndContinue(stage) == "rd_loop"

\* utils.py:96-97: nothing around get_file catches; an exception of any stage
\* of get_file ends retrieve_data
Propagate(stage) == "raised"

\* utils.py:94  not out_files : None and the empty list are falsy
Falsy(v) == v.type = "NoneType" \/ (v.type = "list" /\ v.items = <<>>)

\* utils.py:94-95
RetrieveNothing ==
  /\ pc = "rd_start"
  /\ Falsy(out_files)
  /\ retrRet' = PyStr(<<"No files provided">>)
  /\ pc' = "done"
  /\ UNCHANGED <<caller, out_files, rIdx, requests, received, writes, fs,
                 failed, handles>>
  /\ UNCHANGED <<pollVars, jobVars, launchVars>>

\* utils.py:94, 96: a non-empty list enters the loop
RetrieveStart ==
  /\ pc = "rd_start"
  /\ ~Falsy(out_files)
  /\ pc' = "rd_loop"
  /\ UNCHANGED <<caller, retrVars, handles>>
  /\ UNCHANGED <<pollVars, jobVars, launchVars>>

\* utils.py:96-97, 35: the next descriptor's GET, answered with any content
\* (the status of the answer is not looked at)
GetFileGet ==
  /\ pc = "rd_loop"
  /\ rIdx < Len(out_files.items)
  /\ rIdx' = rIdx + 1
  /\ requests' = Append(requests, DataUrl(apiURL, out_files.items[rIdx + 1]))
  /\ \E content \in Contents : received' = Append(received, content)
  /\ pc' = "gf_open"
  /\ UNCHANGED <<caller, out_files, writes, fs, failed, retrRet, handles>>
  /\ UNCHANGED <<pollVars, jobVars, launchVars>>

\* utils.py:35: requests.get raises; the exception leaves get_file and
\* retrieve_data
GetFileGetRaises ==
  /\ pc = "rd_loop"
  /\ rIdx < Len(out_files.items)
  /\ rIdx' = rIdx + 1
  /\ requests' = Append(requests, DataUrl(apiURL, out_files.items[rIdx + 1]))
  /\ failed' = [at |-> rIdx + 1, stage |-> "get"]
  /\ pc' = Propagate("get")
  /\ UNCHANGED <<caller, out_files, received, writes, fs, retrRet, handles>>
  /\ UNCHANGED <<pollVars, jobVars, launchVars>>

\* utils.py:36  open(filename, 'wb') creates the file or truncates it
GetFileOpen ==
  /\ pc = "gf_open"
  /\ fs' = [fs EXCEPT ![CurDesc.name] = Empty]
  /\ handles' = Append(handles,
                       [path |-> CurDesc.name, mode |-> "wb",
                        key |-> <<>>, buffer |-> Empty, closed |-> FALSE])
  /\ pc' = "gf_write"
  /\ UNCHANGED <<caller, out_files, rIdx, requests, received, writes, failed,
                 retrRet>>
  /\ UNCHANGED <<pollVars, jobVars, launchVars>>

\* utils.py:36: open raises (no permission, no such directory)
GetFileOpenRaises ==
  /\ pc = "gf_open"
  /\ failed' = [at |-> rIdx, stage |-> "open"]
  /\ pc' = Propagate("open")
  /\ UNCHANGED <<caller, out_files, rIdx, requests, received, writes, fs,
                 retrRet, handles>>
  /\ UNCHANGED <<pollVars, jobVars, launchVars>>

\* utils.py:37  file.write(r.content): a body that fits the buffer stays
\* there and the file stays empty; a larger one goes to the file, which takes
\* all of it, or takes a part and leaves the rest in the buffer
GetFileWrite ==
  /\ pc = "gf_write"
  /\ \/ /\ Buffered(received[rIdx])
        /\ handles' = [handles EXCEPT
                         ![Len(handles)].buffer = received[rIdx]]
        /\ fs' = fs
     \/ /\ ~Buffered(received[rIdx])
        /\ fs' = [fs EXCEPT ![CurDesc.name] = received[rIdx]]
        /\ handles' = handles
     \/ /\ ~Buffered(received[rIdx])
        /\ fs' = [fs EXCEPT ![CurDesc.name] = Part(received[rIdx])]
        /\ handles' = [handles EXCEPT
                         ![Len(handles)].buffer = Rest(received[rIdx])]
  /\ writes' = Append(writes, rIdx)
  /\ pc' = "gf_close"
  /\ UNCHANGED <<caller, out_files, rIdx, requests, received, failed,
                 retrRet>>
  /\ UNCHANGED <<pollVars, jobVars, launchVars>>

\* utils.py:37: write raises (disk full) when the body goes to the file at
\* once, with nothing or a part of the body in the file; close is not reached
GetFileWriteRaises ==
  /\ pc = "gf_write"
  /\ ~Buffered(received[rIdx])
  /\ \E disk \in {Empty, Part(received[rIdx])} :
       fs' = [fs EXCEPT ![CurDesc.name] = disk]
  /\ failed' = [at |-> rIdx, stage |-> "write"]
  /\ pc' = Propagate("write")
  /\ UNCHANGED <<caller, out_files, rIdx, requests, received, writes,
                 retrRet, handles>>
  /\ UNCHANGED <<pollVars, jobVars, launchVars>>

\* utils.py:38  file.close() writes what the buffer holds and closes
GetFileClose ==
  /\ pc = "gf_close"
  /\ fs' = IF handles[Len(handles)].buffer # Empty
             THEN [fs EXCEPT ![CurDesc.name] =
                     Joined(fs[CurDesc.name], handles[Len(handles)].buffer)]
             ELSE fs
  /\ handles' = [handles EXCEPT ![Len(handles)].buffer = Empty,
                                ![Len(handles)].closed = TRUE]
  /\ pc' = "rd_loop"
  /\ UNCHANGED <<caller, out_files, rIdx, requests, received, writes, failed,
                 retrRet>>
  /\ UNCHANGED <<pollVars, jobVars, launchVars>>

\* utils.py:38: writing the buffer fails (disk full): close raises, the file
\* keeps what it held (nothing, or the part of a large body) and the file
\* object is closed all the same
GetFileCloseRaises ==
  /\ pc = "gf_close"
  /\ handles[Len(handles)].buffer # Empty
  /\ handles' = [handles EXCEPT ![Len(handles)].buffer = Empty,
                                ![Len(handles)].closed = TRUE]
  /\ failed' = [at |-> rIdx, stage |-> "close"]
  /\ pc' = Propagate("close")
  /\ UNCHANGED <<caller, out_files, rIdx, requests, received, writes, fs,
                 retrRet>>
  /\ UNCHANGED <<pollVars, jobVars, launchVars>>

\* utils.py:96: the loop is over; retrieve_data returns None
RetrieveReturn ==
  /\ pc = "rd_loop"
  /\ rIdx = Len(out_files.items)
  /\ retrRet' = PyNone
  /\ pc' = "done"
  /\ UNCHANGED <<caller, out_files, rIdx, requests, received, writes, fs,
                 failed, handles>>
  /\ UNCHANGED <<pollVars, jobVars, launchVars>>

\* --------------------------------------------------------- specifications

\* Variables of check_status and check_job before either runs.
IdlePoll ==
  /\ caller = "direct"
  /\ PollEntry(<<>>, 0, 0)

IdleJob ==
  /\ token = <<>>
  /\ response = Unset
  /\ jobResult = Unset

IdleLaunch ==
  /\ kwargs = <<>>
  /\ idx = 0
  /\ data = <<>>
  /\ files = <<>>
  /\ posted = Unset
  /\ lresponse = Unset
  /\ launchRet = Unset

IdleRetrieve ==
  /\ out_files = PyNone
  /\ rIdx = 0
  /\ requests = <<>>
  /\ received = <<>>
  /\ writes = <<>>
  /\ failed = [at |-> 0, stage |-> "none"]
  /\ retrRet = Unset

\* The local files of the launch: a.gro exists, out.gro does not.
LaunchFs == [n \in Names |-> IF n = <<"a.gro">> THEN "x" ELSE Absent]

\* A call of check_status(url, ok, error) with any two codes.
InitPoll ==
  /\ pc = "cs_tier"
  /\ caller = "direct"
  /\ \E u \in ApiURLs, o \in StatusCodes, e \in StatusCodes :
       PollEntry(StatusUrl(u, <<"tok1">>), o, e)
  /\ apiURL \in ApiURLs
  /\ IdleJob /\ IdleLaunch /\ IdleRetrieve
  /\ fs = LaunchFs
  /\ handles = <<>>

NextPoll == PollTier \/ PollSleep \/ PollGet \/ PollGetRaises

SpecPoll == InitPoll /\ [][NextPoll]_vars

\* A call of check_job(token, apiURL).
InitJob ==
  /\ pc = "cj_start"
  /\ caller = "check_job"
  /\ PollEntry(<<>>, 0, 0)
  /\ token \in Tokens
  /\ apiURL \in ApiURLs
  /\ response = Unset
  /\ jobResult = Unset
  /\ IdleLaunch /\ IdleRetrieve
  /\ fs = LaunchFs
  /\ handles = <<>>

NextJob ==
  \/ JobStart \/ PollTier \/ PollSleep \/ PollGet \/ PollGetRaises
  \/ JobFinish \/ JobGetDataRaises \/ JobKeyError

SpecJob == InitJob /\ [][NextJob]_vars

\* A call of launch_job(url, **kwargs).
InitLaunch ==
  /\ pc = "lj_loop"
  /\ caller = "direct"
  /\ \E u \in LaunchURLs : PollEntry(u, 0, 0)
  /\ apiURL \in ApiURLs
  /\ IdleJob
  /\ kwargs \in KwargsSets
  /\ idx = 0
  /\ data = <<>>
  /\ files = <<>>
  /\ posted = Unset
  /\ lresponse = Unset
  /\ launchRet = Unset
  /\ IdleRetrieve
  /\ fs = LaunchFs
  /\ handles = <<>>

NextLaunch ==
  \/ LaunchUpload \/ LaunchUploadRaises \/ LaunchOutput \/ LaunchConfig
  \/ LaunchSkip \/ LaunchPost \/ LaunchPostRaises
  \/ LaunchReturn \/ LaunchReturnRaises

SpecLaunch == InitLaunch /\ [][NextLaunch]_vars

\* A call of retrieve_data(out_files, apiURL), each local file there or not.
InitRetrieve ==
  /\ pc = "rd_start"
  /\ IdlePoll
  /\ apiURL \in ApiURLs
  /\ IdleJob /\ IdleLaunch
  /\ out_files \in {PyNone} \cup {PyList(q) : q \in SeqsUpTo(Descriptors, MaxFiles)}
  /\ rIdx = 0
  /\ requests = <<>>
  /\ received = <<>>
  /\ writes = <<>>
  /\ failed = [at |-> 0, stage |-> "none"]
  /\ retrRet = Unset
  /\ fs \in [Names -> {Absent, "x"}]
  /\ handles = <<>>

NextRetrieve ==
  \/ RetrieveNothing \/ RetrieveStart \/ GetFileGet \/ GetFileGetRaises
  \/ GetFileOpen \/ GetFileOpenRaises \/ GetFileWrite \/ GetFileWriteRaises
  \/ GetFileClose \/ GetFileCloseRaises \/ RetrieveReturn

SpecRetrieve == InitRetrieve /\ [][NextRetrieve]_vars

\* Any one call of the four.
Init == InitPoll \/ InitJob \/ InitLaunch \/ InitRetrieve

Next == NextPoll \/ NextJob \/ NextLaunch \/ NextRetrieve

Spec == Init /\ [][Next]_vars

\* ------------------------------------------------------------------ claims

\* C1: launch_job returns the token of the answer's body exactly when the
\* status of the answer is 303; on every other status it returns None, also
\* when the body carries a token.
C1_TokenIffSeeOther ==
  (pc = "done" /\ launchRet # Unset) =>
    /\ lresponse.status = 303 =>
         /\ "token" \in DOMAIN lresponse.json
         /\ launchRet = PyStr(lresponse.json.token)
    /\ lresponse.status # 303 => launchRet = PyNone

C1_Witness ==
  /\ pc = "done"
  /\ lresponse # Unset
  /\ lresponse.status = 303
  /\ launchRet = PyStr(<<"tok2">>)

\* C2: check_status returns at the first GET answered with ok or error and
\* at no earlier one: while it has not returned no GET was answered with a
\* terminal code, every other answer leads back to the head of the loop, and
\* once it has returned exactly one GET, the last, was terminal.
C2_ReturnsAtFirstTerminal ==
  /\ pc = "cs_returned" =>
       /\ nTerminal = 1
       /\ lastStatus \in {ok, error}
       /\ retval # Unset
  /\ pc \in {"cs_tier", "cs_sleep", "cs_get", "raised"} =>
       /\ nTerminal = 0
       /\ retval = Unset
       /\ nGets > 0 => lastStatus \notin {ok, error}
  /\ pc \in {"cs_tier", "cs_sleep", "cs_get", "cs_returned", "raised"}

C2_Witness ==
  /\ pc = "cs_returned"
  /\ nGets = 3
  /\ nTerminal = 1
  /\ lastStatus = error
  /\ ok # error

\* The counter after n iterations, as the claim states it.
CounterAfter(n) ==
  IF n <= 10 THEN n
  ELSE IF n <= 15 THEN 10 + 10 * (n - 10)
  ELSE 60 + 60 * (n - 15)

\* The sleep the schedule gives for a counter value c.
TierOf(c) == IF c < 10 THEN 1 ELSE IF c < 60 THEN 10 ELSE 60

\* The iterations of check_status begun so far.
Iterations == nSleeps + (IF pc = "cs_sleep" THEN 1 ELSE 0)

\* C3: every GET of check_status follows exactly one sleep, whose length is
\* the tier of the counter before the iteration (1 below 10, 10 from 10 to
\* 59, 60 from 60 on); after n iterations the counter is n up to 10,
\* 10+10(n-10) up to 15 and 60+60(n-15) beyond; the value returned is the sum
\* of the sleeps, 3 for the answers 202, 202, 200.
C3_SleepSchedule ==
  /\ counter = CounterAfter(Iterations)
  /\ clock = CounterAfter(nSleeps)
  /\ Iterations > 0 => slp = TierOf(counter - slp)
  /\ nGets = nSleeps - (IF pc = "cs_get" THEN 1 ELSE 0)
  /\ pc = "cs_returned" => retval = PyInt(clock)
  /\ (pc = "cs_returned" /\ nGets = 3) => retval = PyInt(3)

C3_Witness ==
  /\ pc = "cs_returned"
  /\ nGets = 16
  /\ slp = 60
  /\ retval = PyInt(120)

\* C4: once the POST is sent, every string argument is where the first
\* matching rule puts it: an input... name in files (under its path, as an
\* opened file) and not in data; otherwise an output... name in data with its
\* path, not in files and never opened, whether or not the path is a file;
\* otherwise in files as an opened file only if the path is a file, and not
\* in data.  No name is in both data and files.
C4_Classification ==
  posted # Unset =>
    /\ DOMAIN posted.data \cap DOMAIN posted.files = {}
    /\ \A i \in 1..Len(kwargs) :
         LET k == kwargs[i][1]
             v == kwargs[i][2]
         IN  v.type = "str" =>
               IF StartsWith(k, P_input)
                 THEN /\ k \in DOMAIN posted.files
                      /\ posted.files[k].filename = v.s
                      /\ posted.files[k].fileobj.type = "file"
                      /\ handles[posted.files[k].fileobj.handle].path = v.s
                      /\ k \notin DOMAIN posted.data
               ELSE IF StartsWith(k, P_output)
                 THEN /\ k \in DOMAIN posted.data
                      /\ posted.data[k] = v.s
                      /\ k \notin DOMAIN posted.files
                      /\ \A h \in 1..Len(handles) : handles[h].key # k
               ELSE /\ k \notin DOMAIN posted.data
                    /\ (/\ k \in DOMAIN posted.files
                        /\ posted.files[k].fileobj.type = "file")
                         => fs[v.s] # Absent

C4_Witness ==
  /\ posted # Unset
  /\ kwargs = << <<K_input_gro, PyStr(<<"a.gro">>)>>,
                 <<K_output_gro, PyStr(<<"a.gro">>)>> >>
  /\ K_input_gro \in DOMAIN posted.files
  /\ K_output_gro \in DOMAIN posted.data

\* C5: when an argument is a configuration object, whatever its name, the
\* POST carries one 'config' attachment, named prop.json, holding the JSON of
\* a configuration object of the call, and no configuration object is a form
\* field.
C5_ConfigAttached ==
  (posted # Unset /\ \E i \in 1..Len(kwargs) : kwargs[i][2].type = "dict") =>
    /\ \A i \in 1..Len(kwargs) :
         kwargs[i][2].type = "dict" => kwargs[i][1] \notin DOMAIN posted.data
    /\ K_config \in DOMAIN posted.files
    /\ posted.files[K_config].filename = <<"prop.json">>
    /\ \E i \in 1..Len(kwargs) :
         /\ kwargs[i][2].type = "dict"
         /\ posted.files[K_config].fileobj
              = [type |-> "BytesIO", bytes |-> Dumps(kwargs[i][2].d)]

\* The last descriptor of the list that carries the name of descriptor i.
LastWithName(i) ==
  CHOOSE j \in i..Len(out_files.items) :
    /\ out_files.items[j].name = out_files.items[i].name
    /\ \A m \in (j + 1)..Len(out_files.items) :
         out_files.items[m].name # out_files.items[i].name

\* The GETs retrieve_data is to issue for its first n descriptors.
ExpectedRequests(n) ==
  [i \in 1..n |-> apiURL \o <<"retrieve/data/">> \o out_files.items[i].id]

\* The names of the files written so far.
WrittenNames == {out_files.items[writes[w]].name : w \in 1..Len(writes)}

\* The bytes the GETs for the id of descriptor i were answered with.
ReturnedForIdOf(i) ==
  {received[j] : j \in {m \in 1..Len(received) :
                          out_files.items[m].id = out_files.items[i].id}}

\* C6 as stated: after retrieve_data has returned for a non-empty list, one
\* GET per descriptor was issued, in list order, the file named by each
\* descriptor holds bytes returned for that descriptor's id, and with two
\* (different) descriptors two files are written.
C6_EachFileHoldsItsBytes ==
  (pc = "done" /\ ~Falsy(out_files)) =>
    /\ requests = ExpectedRequests(Len(out_files.items))
    /\ \A i \in 1..Len(out_files.items) :
         fs[out_files.items[i].name] \in ReturnedForIdOf(i)
    /\ (/\ Len(out_files.items) = 2
        /\ out_files.items[1] # out_files.items[2])
         => Cardinality(WrittenNames) = 2

\* C6, amended: after retrieve_data has returned for a non-empty list, one
\* GET per descriptor was issued, in list order, one write per descriptor was
\* made, in list order, and the file named by each descriptor holds the bytes
\* returned for the last descriptor of the list that carries that name; as
\* many files are written as there are distinct names.
C6_FileHoldsLastBytes ==
  (pc = "done" /\ ~Falsy(out_files)) =>
    /\ requests = ExpectedRequests(Len(out_files.items))
    /\ writes = [i \in 1..Len(out_files.items) |-> i]
    /\ \A i \in 1..Len(out_files.items) :
         fs[out_files.items[i].name] = received[LastWithName(i)]
    /\ WrittenNames
         = {out_files.items[i].name : i \in 1..Len(out_files.items)}

C6_Witness ==
  /\ pc = "done"
  /\ out_files.type = "list"
  /\ Len(out_files.items) = 2
  /\ out_files.items[1].name = out_files.items[2].name
  /\ out_files.items[1].id # out_files.items[2].id
  /\ received = <<"x", "y">>
  /\ fs[out_files.items[1].name] = "y"

\* The last descriptor before position i that carries name n (0 when none).
LastBefore(i, n) ==
  LET same == {j \in 1..(i - 1) : out_files.items[j].name = n}
  IN  IF same = {} THEN 0 ELSE CHOOSE j \in same : \A m \in same : m <= j

\* C7: when get_file fails for the i-th descriptor, retrieve_data ends with
\* the exception and returns nothing; the GETs issued are those of positions
\* 1 to i, no write is made for a position after i (nor for i, unless it is
\* close that failed), and every file written for an earlier descriptor is
\* still there, with the bytes the earlier descriptors left in it (unless the
\* failing call itself had already opened that very file for writing, which
\* leaves it empty or with a part of the failing download).
C7_FailureAbortsTheRest ==
  failed.at # 0 =>
    /\ pc = "raised"
    /\ retrRet = Unset
    /\ rIdx = failed.at
    /\ requests = ExpectedRequests(failed.at)
    /\ writes = [i \in 1..(IF failed.stage = "close"
                              THEN failed.at ELSE failed.at - 1) |-> i]
    /\ \A j \in 1..(failed.at - 1) :
         LET n == out_files.items[j].name
         IN  /\ fs[n] # Absent
             /\ IF /\ failed.stage \in {"write", "close"}
                   /\ out_files.items[failed.at].name = n
                   THEN fs[n] \in {Empty, "XL:head"}
                   ELSE fs[n] = received[LastBefore(failed.at, n)]

C7_Witness ==
  /\ pc = "raised"
  /\ failed = [at |-> 2, stage |-> "get"]
  /\ Len(out_files.items) = 3
  /\ writes = <<1>>
  /\ fs[out_files.items[1].name] = received[1]

\* C8: check_job returns a list only when the answer it reads after the loop
\* has status 200, and the list is then the id and name of every entry of the
\* body's output_files, in order; on every other status, 500 included, it
\* returns None.
C8_DescriptorsOnlyOn200 ==
  pc = "done" =>
    /\ response.status = 200 =>
         /\ jobResult.type = "list"
         /\ Len(jobResult.items) = Len(response.json.output_files)
         /\ \A i \in 1..Len(jobResult.items) :
              jobResult.items[i]
                = [id |-> response.json.output_files[i].id,
                   name |-> response.json.output_files[i].name]
    /\ response.status # 200 => jobResult = PyNone

C8_Witness ==
  /\ pc = "done"
  /\ response.status = 200
  /\ jobResult.type = "list"
  /\ Len(jobResult.items) = 2
  /\ jobResult.items[1] = [id |-> <<"id2">>, name |-> <<"out.gro">>]
  /\ jobResult.items[2] = [id |-> <<"id1">>, name |-> <<"a.gro">>]

\* C9: when launch_job has returned, every file object opened so far is
\* closed.
C9_NoHandleLeftOpen ==
  pc = "done" => \A h \in 1..Len(handles) : handles[h].closed

\* C10: the result of check_job follows the GET made after the polling loop,
\* not the answer the loop stopped on: a loop ended on 200 and a re-fetch
\* that is not 200 give None, a loop ended on 500 and a re-fetch of 200 give
\* the descriptors, and the result is what the loop's last answer suggests
\* only when both answers are 200 or both are not.
C10_ResultFollowsRefetch ==
  pc = "done" =>
    /\ lastStatus \in {200, 500}
    /\ (lastStatus = 200 /\ response.status # 200) => jobResult = PyNone
    /\ (lastStatus = 500 /\ response.status = 200) =>
         jobResult = PyList(OutFiles(response.json))
    /\ ((jobResult.type = "list") <=> (lastStatus = 200)) =>
         ((response.status = 200) <=> (lastStatus = 200))

C10_Witness ==
  /\ pc = "done"
  /\ lastStatus = 500
  /\ response.status = 200
  /\ jobResult.type = "list"
  /\ Len(jobResult.items) = 1

====
